---- MODULE Spec2Model ----
(***************************************************************************)
(* The two example scripts of the repository, examples/00-load/            *)
(* read-parallel.py and examples/02-plot/anti-aliasing.py, as straight-line *)
(* programs run by a Python interpreter.  Each script is a sequence of     *)
(* steps (library calls, attribute assignments, plain assignments); the    *)
(* interpreter starts a call, and the call then returns a value or raises. *)
(* The library is opaque: a call's result is a fresh object named after    *)
(* the call that made it.  Every event of a run is appended to the         *)
(* script's log, and the properties are stated over the log.               *)
(***************************************************************************)
EXTENDS Integers, Sequences, FiniteSets, TLC

VARIABLES pc, status, env, inflight, nobj, log

vars == <<pc, status, env, inflight, nobj, log>>

Scripts == {"read-parallel.py", "anti-aliasing.py"}

VarNames == {"path", "filename", "mesh", "_t28", "_t31a", "_t31b", "bunny", "cpos", "pl"}

-----------------------------------------------------------------------------
(* Values.  Every value has the same three fields so that any two compare. *)

None == [kind |-> "None", id |-> 0, data |-> <<>>]

Unbound == [kind |-> "unbound", id |-> 0, data |-> <<>>]

Str(s) == [kind |-> "str", id |-> 0, data |-> <<s>>]

PyTrue == [kind |-> "bool", id |-> 0, data |-> <<"True">>]

PyInt(s) == [kind |-> "int", id |-> 0, data |-> <<s>>]

PyList(items) == [kind |-> "list", id |-> 0, data |-> items]

Path(parts) == [kind |-> "path", id |-> 0, data |-> parts]

Obj(n, fn) == [kind |-> "obj", id |-> n, data |-> <<fn>>]

(* Expressions: a name looked up in the environment, or a literal. *)
Var(n) == [e |-> "var", name |-> n, val |-> None]

Lit(v) == [e |-> "lit", name |-> "", val |-> v]

NoRecv == Lit(None)

Kw(k, x) == [k |-> k, x |-> x]

(* Steps. *)
Call(line, fn, recv, args, kw, bind) ==
    [line |-> line, kind |-> "call", fn |-> fn, recv |-> recv, args |-> args,
     kw |-> kw, bind |-> bind]

SetAttr(line, recv, attr, x) ==
    [line |-> line, kind |-> "setattr", fn |-> attr, recv |-> recv, args |-> <<x>>,
     kw |-> <<>>, bind |-> ""]

AssignStmt(line, target, x) ==
    [line |-> line, kind |-> "assign", fn |-> "", recv |-> NoRecv, args |-> <<x>>,
     kw |-> <<>>, bind |-> target]

-----------------------------------------------------------------------------
(* read-parallel.py *)

EXAMPLES_PATH == Path(<<"EXAMPLES_PATH">>)

ReadParallelDownload ==
    << Call(18, "examples.download_blood_vessels", NoRecv, <<>>, <<>>, "") >>

ReadParallelInspect ==
    << Call(27, "os.path.join", NoRecv, <<Lit(EXAMPLES_PATH), Lit(Str("blood_vessels"))>>, <<>>, "path"),
       Call(28, "os.listdir", NoRecv, <<Var("path")>>, <<>>, "_t28"),
       Call(28, "print", NoRecv, <<Var("_t28")>>, <<>>, ""),
       Call(31, "os.path.join", NoRecv, <<Var("path"), Lit(Str("T0000000500"))>>, <<>>, "_t31a"),
       Call(31, "os.listdir", NoRecv, <<Var("_t31a")>>, <<>>, "_t31b"),
       Call(31, "print", NoRecv, <<Var("_t31b")>>, <<>>, "") >>

(* The read given the directory of pieces instead of the .pvtu file. *)
ReadParallelRead_directory ==
    << Call(37, "os.path.join", NoRecv, <<Var("path"), Lit(Str("T0000000500"))>>, <<>>, "filename"),
       Call(38, "vista.read", NoRecv, <<Var("filename")>>, <<>>, "mesh"),
       Call(39, "print", NoRecv, <<Var("mesh")>>, <<>>, "") >>

ReadParallelRead ==
    << Call(37, "os.path.join", NoRecv, <<Var("path"), Lit(Str("T0000000500.pvtu"))>>, <<>>, "filename"),
       Call(38, "vista.read", NoRecv, <<Var("filename")>>, <<>>, "mesh"),
       Call(39, "print", NoRecv, <<Var("mesh")>>, <<>>, "") >>

(* The plots with the options of the first pasted into the second. *)
ReadParallelPlots_categoriesKept ==
    << Call(43, "plot", Var("mesh"), <<>>,
            <<Kw("scalars", Lit(Str("node_value"))), Kw("categories", Lit(PyTrue))>>, ""),
       Call(47, "plot", Var("mesh"), <<>>,
            <<Kw("scalars", Lit(Str("density"))), Kw("categories", Lit(PyTrue))>>, "") >>

(* The plots with the second one pasted twice. *)
ReadParallelPlots_pastedTwice ==
    << Call(43, "plot", Var("mesh"), <<>>,
            <<Kw("scalars", Lit(Str("node_value"))), Kw("categories", Lit(PyTrue))>>, ""),
       Call(47, "plot", Var("mesh"), <<>>, <<Kw("scalars", Lit(Str("density")))>>, ""),
       Call(47, "plot", Var("mesh"), <<>>, <<Kw("scalars", Lit(Str("density")))>>, "") >>

ReadParallelPlots ==
    << Call(43, "plot", Var("mesh"), <<>>,
            <<Kw("scalars", Lit(Str("node_value"))), Kw("categories", Lit(PyTrue))>>, ""),
       Call(47, "plot", Var("mesh"), <<>>, <<Kw("scalars", Lit(Str("density")))>>, "") >>

(* read-parallel.py with the read placed ahead of the download. *)
ReadParallel_readBeforeDownload ==
    ReadParallelInspect \o ReadParallelRead \o ReadParallelDownload \o ReadParallelPlots

ReadParallel ==
    ReadParallelDownload \o ReadParallelInspect \o ReadParallelRead \o ReadParallelPlots

-----------------------------------------------------------------------------
(* anti-aliasing.py *)

CposLiteral ==
    PyList(<< "(-0.08566, 0.18735, 0.20116)", "(-0.05332, 0.12168, -0.01215)",
              "(-0.00151, 0.95566, -0.29446)" >>)

AntiAliasingSetup ==
    << Call(30, "examples.download_bunny", NoRecv, <<>>, <<>>, "bunny"),
       AssignStmt(38, "cpos", Lit(CposLiteral)) >>

(* The first section adding the mesh without its edges. *)
NoAASection_noEdges ==
    << Call(40, "pv.Plotter", NoRecv, <<>>, <<>>, "pl"),
       Call(41, "add_mesh", Var("pl"), <<Var("bunny")>>, <<>>, ""),
       Call(42, "disable_anti_aliasing", Var("pl"), <<>>, <<>>, ""),
       SetAttr(43, Var("pl"), "camera_position", Var("cpos")),
       Call(44, "show", Var("pl"), <<>>, <<>>, "") >>

NoAASection ==
    << Call(40, "pv.Plotter", NoRecv, <<>>, <<>>, "pl"),
       Call(41, "add_mesh", Var("pl"), <<Var("bunny")>>, <<Kw("show_edges", Lit(PyTrue))>>, ""),
       Call(42, "disable_anti_aliasing", Var("pl"), <<>>, <<>>, ""),
       SetAttr(43, Var("pl"), "camera_position", Var("cpos")),
       Call(44, "show", Var("pl"), <<>>, <<>>, "") >>

(* The FXAA section enabling the mode only after the plot was shown. *)
FXAASection_lateEnable ==
    << Call(56, "pv.Plotter", NoRecv, <<>>, <<>>, "pl"),
       Call(57, "add_mesh", Var("pl"), <<Var("bunny")>>, <<Kw("show_edges", Lit(PyTrue))>>, ""),
       SetAttr(59, Var("pl"), "camera_position", Var("cpos")),
       Call(60, "show", Var("pl"), <<>>, <<>>, ""),
       Call(58, "enable_anti_aliasing", Var("pl"), <<Lit(Str("fxaa"))>>, <<>>, "") >>

FXAASection ==
    << Call(56, "pv.Plotter", NoRecv, <<>>, <<>>, "pl"),
       Call(57, "add_mesh", Var("pl"), <<Var("bunny")>>, <<Kw("show_edges", Lit(PyTrue))>>, ""),
       Call(58, "enable_anti_aliasing", Var("pl"), <<Lit(Str("fxaa"))>>, <<>>, ""),
       SetAttr(59, Var("pl"), "camera_position", Var("cpos")),
       Call(60, "show", Var("pl"), <<>>, <<>>, "") >>

(* The MSAA section passing the mode under its usual abbreviation. *)
MSAASection_msaa ==
    << Call(74, "pv.Plotter", NoRecv, <<>>, <<>>, "pl"),
       Call(75, "add_mesh", Var("pl"), <<Var("bunny")>>, <<Kw("show_edges", Lit(PyTrue))>>, ""),
       Call(76, "enable_anti_aliasing", Var("pl"), <<Lit(Str("msaa"))>>, <<>>, ""),
       SetAttr(77, Var("pl"), "camera_position", Var("cpos")),
       Call(78, "show", Var("pl"), <<>>, <<>>, "") >>

MSAASection ==
    << Call(74, "pv.Plotter", NoRecv, <<>>, <<>>, "pl"),
       Call(75, "add_mesh", Var("pl"), <<Var("bunny")>>, <<Kw("show_edges", Lit(PyTrue))>>, ""),
       Call(76, "enable_anti_aliasing", Var("pl"), <<Lit(Str("mxaa"))>>, <<>>, ""),
       SetAttr(77, Var("pl"), "camera_position", Var("cpos")),
       Call(78, "show", Var("pl"), <<>>, <<>>, "") >>

(* The SSAA section going on with the plotter of the section before. *)
SSAASection_plotterReused ==
    << Call(92, "add_mesh", Var("pl"), <<Var("bunny")>>,
            <<Kw("show_edges", Lit(PyTrue)), Kw("line_width", Lit(PyInt("2")))>>, ""),
       Call(93, "enable_anti_aliasing", Var("pl"), <<Lit(Str("ssaa"))>>, <<>>, ""),
       SetAttr(94, Var("pl"), "camera_position", Var("cpos")),
       Call(95, "show", Var("pl"), <<>>, <<>>, "") >>

SSAASection ==
    << Call(91, "pv.Plotter", NoRecv, <<>>, <<>>, "pl"),
       Call(92, "add_mesh", Var("pl"), <<Var("bunny")>>,
            <<Kw("show_edges", Lit(PyTrue)), Kw("line_width", Lit(PyInt("2")))>>, ""),
       Call(93, "enable_anti_aliasing", Var("pl"), <<Lit(Str("ssaa"))>>, <<>>, ""),
       SetAttr(94, Var("pl"), "camera_position", Var("cpos")),
       Call(95, "show", Var("pl"), <<>>, <<>>, "") >>

AntiAliasing ==
    AntiAliasingSetup \o NoAASection \o FXAASection \o MSAASection \o SSAASection

Program(s) == IF s = "read-parallel.py" THEN ReadParallel ELSE AntiAliasing

-----------------------------------------------------------------------------
(* The interpreter. *)

Eval(x, s) == IF x.e = "var" THEN env[s][x.name] ELSE x.val

EvalArgs(xs, s) == [k \in DOMAIN xs |-> Eval(xs[k], s)]

EvalKw(kws, s) == [k \in DOMAIN kws |-> [k |-> kws[k].k, v |-> Eval(kws[k].x, s)]]

(* A name that is not bound raises NameError when the step is evaluated. *)
NameError(st, s) ==
    \/ Eval(st.recv, s) = Unbound
    \/ \E k \in DOMAIN st.args : Eval(st.args[k], s) = Unbound
    \/ \E k \in DOMAIN st.kw : Eval(st.kw[k].x, s) = Unbound

Event(ev, i, st, s, res) ==
    [ev |-> ev, step |-> i, line |-> st.line, kind |-> st.kind, fn |-> st.fn,
     recv |-> Eval(st.recv, s),
     args |-> EvalArgs(st.args, s), kw |-> EvalKw(st.kw, s), bind |-> st.bind, res |-> res]

(* os.path.join(a, b): the path a with the component b appended. *)
OsPathJoin(a, b) == Path(a.data \o b.data)

(* What a call returns: os.path.join and print are known; anything else is  *)
(* a fresh opaque object of the library.                                    *)
Result(c, n) ==
    IF c.fn = "os.path.join" THEN OsPathJoin(c.args[1], c.args[2])
    ELSE IF c.fn = "print" THEN None
    ELSE Obj(n, c.fn)

(* The "call" event of step i that is still waiting for its outcome. *)
PendingCall(s, i) ==
    LET ks == {k \in DOMAIN log[s] : log[s][k].ev = "call" /\ log[s][k].step = i}
    IN  log[s][CHOOSE k \in ks : \A j \in ks : j <= k]

(* Statements handed to background threads: nothing waits for the one before. *)
CanStart_async(s) == TRUE

(* A statement starts when the one before it has finished. *)
CanStart(s) == inflight[s] = {}

Init ==
    /\ pc = [s \in Scripts |-> 1]
    /\ status = [s \in Scripts |-> "running"]
    /\ env = [s \in Scripts |-> [v \in VarNames |-> Unbound]]
    /\ inflight = [s \in Scripts |-> {}]
    /\ nobj = [s \in Scripts |-> 0]
    /\ log = [s \in Scripts |-> <<>>]

(* The interpreter evaluates the receiver and the arguments and enters the call. *)
Start(s) ==
    /\ status[s] = "running"
    /\ pc[s] <= Len(Program(s))
    /\ Program(s)[pc[s]].kind \in {"call", "setattr"}
    /\ CanStart(s)
    /\ LET st == Program(s)[pc[s]] IN
         IF NameError(st, s)
         THEN /\ status' = [status EXCEPT ![s] = "failed"]
              /\ log' = [log EXCEPT ![s] = Append(@, Event("raise", pc[s], st, s, None))]
              /\ UNCHANGED <<pc, inflight>>
         ELSE /\ log' = [log EXCEPT ![s] = Append(@, Event("call", pc[s], st, s, None))]
              /\ inflight' = [inflight EXCEPT ![s] = @ \cup {pc[s]}]
              /\ pc' = [pc EXCEPT ![s] = @ + 1]
              /\ UNCHANGED status
    /\ UNCHANGED <<env, nobj>>

(* The call of step i returns; its value is bound to the step's target. *)
Return(s, i) ==
    /\ status[s] = "running"
    /\ i \in inflight[s]
    /\ LET c == PendingCall(s, i)
           res == Result(c, nobj[s] + 1)
       IN /\ log' = [log EXCEPT ![s] = Append(@, [c EXCEPT !.ev = "ret", !.res = res])]
          /\ env' = IF c.bind = "" THEN env ELSE [env EXCEPT ![s][c.bind] = res]
    /\ inflight' = [inflight EXCEPT ![s] = @ \ {i}]
    /\ nobj' = [nobj EXCEPT ![s] = @ + 1]
    /\ UNCHANGED <<pc, status>>

(* The call of step i raises inside a try/except that passes: the script goes on. *)
Raise_swallowed(s, i) ==
    /\ status[s] = "running"
    /\ i \in inflight[s]
    /\ log' = [log EXCEPT ![s] = Append(@, [PendingCall(s, i) EXCEPT !.ev = "raise"])]
    /\ inflight' = [inflight EXCEPT ![s] = @ \ {i}]
    /\ UNCHANGED <<pc, status, env, nobj>>

(* The call of step i raises; nothing catches it, the script ends. *)
Raise(s, i) ==
    /\ status[s] = "running"
    /\ i \in inflight[s]
    /\ log' = [log EXCEPT ![s] = Append(@, [PendingCall(s, i) EXCEPT !.ev = "raise"])]
    /\ inflight' = [inflight EXCEPT ![s] = @ \ {i}]
    /\ status' = [status EXCEPT ![s] = "failed"]
    /\ UNCHANGED <<pc, env, nobj>>

(* name = literal *)
Assign(s) ==
    /\ status[s] = "running"
    /\ pc[s] <= Len(Program(s))
    /\ Program(s)[pc[s]].kind = "assign"
    /\ CanStart(s)
    /\ LET st == Program(s)[pc[s]]
           v == Eval(st.args[1], s)
       IN /\ env' = [env EXCEPT ![s][st.bind] = v]
          /\ log' = [log EXCEPT ![s] = Append(@, Event("assign", pc[s], st, s, v))]
    /\ pc' = [pc EXCEPT ![s] = @ + 1]
    /\ UNCHANGED <<status, inflight, nobj>>

(* The end of the file is reached. *)
Exit(s) ==
    /\ status[s] = "running"
    /\ pc[s] > Len(Program(s))
    /\ CanStart(s)
    /\ status' = [status EXCEPT ![s] = "done"]
    /\ UNCHANGED <<pc, env, inflight, nobj, log>>

Next ==
    \E s \in Scripts :
        \/ Start(s)
        \/ Assign(s)
        \/ Exit(s)
        \/ \E i \in inflight[s] : Return(s, i)
        \/ \E i \in inflight[s] : Raise(s, i)

Spec == Init /\ [][Next]_vars

(* The interpreter keeps running a script that can go on, and every call   *)
(* that was entered comes to an outcome.                                    *)
FairSpec ==
    /\ Spec
    /\ \A s \in Scripts :
          /\ WF_vars(Start(s) \/ Assign(s) \/ Exit(s))
          /\ WF_vars(\E i \in inflight[s] : Return(s, i) \/ Raise(s, i))

-----------------------------------------------------------------------------
(* Reading the log. *)

RP == "read-parallel.py"

AA == "anti-aliasing.py"

(* Positions of the events of kind ev whose function is in F. *)
Idx(s, ev, F) == {k \in DOMAIN log[s] : log[s][k].ev = ev /\ log[s][k].fn \in F}

CallIdx(s, F) == Idx(s, "call", F)

RetIdx(s, F) == Idx(s, "ret", F)

(* Every call in F started only after some call in G had returned. *)
After(s, F, G) == \A k \in CallIdx(s, F) : \E j \in RetIdx(s, G) : j < k

FetchFns == {"examples.download_blood_vessels", "examples.download_bunny"}

ReadFns == {"vista.read"}

PlotFns == {"plot", "add_mesh", "show"}

Done(s) == status[s] = "done"

-----------------------------------------------------------------------------
(* C1 (as stated): in both scripts every plot/render call starts after a    *)
(* read call has returned, and every read call starts after the dataset     *)
(* fetch has returned.                                                      *)
C1_Original ==
    \A s \in Scripts : After(s, PlotFns, ReadFns) /\ After(s, ReadFns, FetchFns)

(* C1 (amended): read-parallel.py fetches, then reads, then plots; in       *)
(* anti-aliasing.py every plot/render call starts after the fetch has       *)
(* returned and there is no read call at all. A finished run has made the   *)
(* calls of each kind it is said to make.                                   *)
C1_FetchReadPlot ==
    /\ After(RP, PlotFns, ReadFns)
    /\ After(RP, ReadFns, FetchFns)
    /\ After(AA, PlotFns, FetchFns)
    /\ CallIdx(AA, ReadFns) = {}
    /\ Done(RP) => CallIdx(RP, PlotFns) # {}
    /\ Done(AA) => CallIdx(AA, PlotFns) # {}

C1_Witness == Done(RP) /\ CallIdx(AA, {"show"}) # {}

-----------------------------------------------------------------------------
DocumentedModes == {"ssaa", "mxaa", "fxaa"}

EnabledOn(m) ==
    {log[AA][k].recv : k \in {j \in CallIdx(AA, {"enable_anti_aliasing"}) :
                                  log[AA][j].args = <<Str(m)>>}}

(* C2: every mode passed to enable_anti_aliasing is one of the three        *)
(* documented modes, no mode is enabled twice, and in a finished run each   *)
(* documented mode has been enabled on exactly one plotter.                 *)
C2_DocumentedModes ==
    /\ \A k \in CallIdx(AA, {"enable_anti_aliasing"}) :
           \E m \in DocumentedModes : log[AA][k].args = <<Str(m)>>
    /\ \A m \in DocumentedModes :
           /\ Cardinality(EnabledOn(m)) <= 1
           /\ Cardinality({k \in CallIdx(AA, {"enable_anti_aliasing"}) :
                               log[AA][k].args = <<Str(m)>>}) <= 1
           /\ Done(AA) => Cardinality(EnabledOn(m)) = 1

C2_Witness == Done(AA) /\ \A m \in DocumentedModes : EnabledOn(m) # {}

-----------------------------------------------------------------------------
AAConfigFns == {"enable_anti_aliasing", "disable_anti_aliasing"}

Announced == <<"disabled", "fxaa", "mxaa", "ssaa">>

ModeOf(e) == IF e.fn = "disable_anti_aliasing" THEN "disabled" ELSE e.args[1].data[1]

ConfigsBefore(p, k) == {j \in CallIdx(AA, AAConfigFns) : j < k /\ log[AA][j].recv = p}

ShowNo(k) == Cardinality({j \in CallIdx(AA, {"show"}) : j <= k})

(* C3: when a plotter's show() is called, exactly one anti-aliasing         *)
(* configuration call has been made on that plotter, it came after the      *)
(* plotter's add_mesh, it has returned, and its mode is the one announced   *)
(* by the section: disabled, fxaa, mxaa, ssaa for the 1st to 4th show.      *)
C3_SettingAtShow ==
    \A k \in CallIdx(AA, {"show"}) :
        LET p == log[AA][k].recv
            cs == ConfigsBefore(p, k)
        IN  /\ ShowNo(k) <= Len(Announced)
            /\ Cardinality(cs) = 1
            /\ \A c \in cs :
                 /\ ModeOf(log[AA][c]) = Announced[ShowNo(k)]
                 /\ \E a \in CallIdx(AA, {"add_mesh"}) : a < c /\ log[AA][a].recv = p
                 /\ \E r \in RetIdx(AA, AAConfigFns) :
                        c < r /\ r < k /\ log[AA][r].step = log[AA][c].step

C3_Witness == Cardinality(CallIdx(AA, {"show"})) = 4

-----------------------------------------------------------------------------
PvtuFile == Path(<<"EXAMPLES_PATH", "blood_vessels", "T0000000500.pvtu">>)

PiecesDir == Path(<<"EXAMPLES_PATH", "blood_vessels", "T0000000500">>)

ResultsOf(s, F) == {log[s][k].res : k \in RetIdx(s, F)}

(* C4: vista.read is called at most once (once in a finished run), after    *)
(* the download has returned, on <EXAMPLES_PATH>/blood_vessels/             *)
(* T0000000500.pvtu and not on the directory T0000000500; the value the     *)
(* download returns is bound to no name; the mesh that is printed and       *)
(* plotted is the value that read returned, and both plots come after it.   *)
C4_ReadThePvtuFile ==
    /\ Cardinality(CallIdx(RP, ReadFns)) <= 1
    /\ Done(RP) => Cardinality(RetIdx(RP, ReadFns)) = 1
    /\ \A k \in CallIdx(RP, ReadFns) :
           /\ log[RP][k].args = <<PvtuFile>>
           /\ log[RP][k].args # <<PiecesDir>>
           /\ \E j \in RetIdx(RP, {"examples.download_blood_vessels"}) : j < k
    /\ \A k \in RetIdx(RP, {"examples.download_blood_vessels"}) :
           /\ log[RP][k].bind = ""
           /\ \A v \in VarNames : env[RP][v] # log[RP][k].res
    /\ env[RP]["mesh"] \in {Unbound} \cup ResultsOf(RP, ReadFns)
    /\ \A k \in CallIdx(RP, {"plot"}) :
           /\ log[RP][k].recv \in ResultsOf(RP, ReadFns)
           /\ log[RP][k].recv \notin ResultsOf(RP, {"examples.download_blood_vessels"})
           /\ \E j \in RetIdx(RP, ReadFns) : j < k
    /\ \A k \in CallIdx(RP, {"print"}) :
           log[RP][k].line = 39 =>
               /\ log[RP][k].args[1] \in ResultsOf(RP, ReadFns)
               /\ log[RP][k].args[1] \notin ResultsOf(RP, {"examples.download_blood_vessels"})

C4_Witness == Done(RP) /\ Cardinality(CallIdx(RP, {"plot"})) = 2

-----------------------------------------------------------------------------
RaiseIdx(s) == {k \in DOMAIN log[s] : log[s][k].ev = "raise"}

StartsOf(s, i) == {k \in DOMAIN log[s] : log[s][k].ev \in {"call", "assign"} /\ log[s][k].step = i}

C5_Stopped(s) ==
    /\ (status[s] = "failed") <=> (RaiseIdx(s) # {})
    /\ \A k \in RaiseIdx(s) :
           /\ k = Len(log[s])
           /\ \A j \in DOMAIN log[s] : log[s][j].step <= log[s][k].step
           /\ Cardinality(StartsOf(s, log[s][k].step)) = 1
    /\ \A i \in 1..Len(Program(s)) : Cardinality(StartsOf(s, i)) <= 1

C5_Frozen(s) ==
    status[s] = "failed" =>
        /\ pc'[s] = pc[s] /\ status'[s] = status[s] /\ env'[s] = env[s]
        /\ inflight'[s] = inflight[s] /\ nobj'[s] = nobj[s] /\ log'[s] = log[s]

(* C5: a call that raises ends the script at that call: the raise is the    *)
(* last event of the run, no step after the failing one was started, no     *)
(* step (the failing one included) was started twice, and once the script   *)
(* has failed nothing of it changes any more.                               *)
C5_FailurePropagates ==
    /\ [](\A s \in Scripts : C5_Stopped(s))
    /\ [][\A s \in Scripts : C5_Frozen(s)]_vars

C5_Witness ==
    /\ status[RP] = "failed" /\ log[RP][Len(log[RP])].fn = "vista.read"
    /\ status[AA] = "failed" /\ log[AA][Len(log[AA])].fn = "show"

-----------------------------------------------------------------------------
OutcomeBetween(s, j, k) ==
    \E r \in DOMAIN log[s] :
        j < r /\ r < k /\ log[s][r].ev = "ret" /\ log[s][r].step = log[s][j].step

InProgress(s) ==
    {k \in DOMAIN log[s] :
        /\ log[s][k].ev = "call"
        /\ ~\E r \in DOMAIN log[s] :
               k < r /\ log[s][r].ev \in {"ret", "raise"} /\ log[s][r].step = log[s][k].step}

AnyCall(s) == {k \in DOMAIN log[s] : log[s][k].ev = "call"}

(* C6: in each script at most one call is in progress, and a call starts    *)
(* only after every call before it in program order has returned; a         *)
(* Plotter is created only after the show() before it has returned.         *)
C6_OneCallAtATime ==
    \A s \in Scripts :
        /\ Cardinality(InProgress(s)) <= 1
        /\ Cardinality(inflight[s]) <= 1
        /\ \A k \in AnyCall(s) : \A j \in AnyCall(s) :
               j < k => log[s][j].step < log[s][k].step /\ OutcomeBetween(s, j, k)
        /\ \A k \in CallIdx(s, {"pv.Plotter"}) : \A j \in CallIdx(s, {"show"}) :
               j < k => OutcomeBetween(s, j, k)

C6_Witness ==
    /\ Cardinality(CallIdx(AA, {"pv.Plotter"})) >= 2
    /\ InProgress(AA) # {}
    /\ InProgress(RP) # {}

-----------------------------------------------------------------------------
Count(s, F) == Cardinality(CallIdx(s, F))

(* The counts of a run: steps, events, and the calls of a finished run. *)
C7_Counts ==
    /\ \A s \in Scripts :
           /\ \A i \in 1..Len(Program(s)) : Cardinality(StartsOf(s, i)) <= 1
           /\ \A k \in DOMAIN log[s] : log[s][k].step \in 1..Len(Program(s))
           /\ Len(log[s]) <= 2 * Len(Program(s))
    /\ Done(RP) =>
           /\ Count(RP, {"examples.download_blood_vessels"}) = 1
           /\ Count(RP, {"os.listdir"}) = 2
           /\ Count(RP, {"vista.read"}) = 1
           /\ Count(RP, {"plot"}) = 2
           /\ RetIdx(RP, {"plot"}) # {}
    /\ Done(AA) =>
           /\ Count(AA, {"examples.download_bunny"}) = 1
           /\ Count(AA, {"pv.Plotter"}) = 4
           /\ Count(AA, {"add_mesh"}) = 4
           /\ Count(AA, AAConfigFns) = 4
           /\ Count(AA, {"camera_position"}) = 4
           /\ Count(AA, {"show"}) = 4

(* C7: no step is executed more than once, a run has at most two events     *)
(* per step, a finished run of read-parallel.py has made exactly one        *)
(* download, two directory listings, one read and two plots, a finished run *)
(* of anti-aliasing.py exactly one download and four each of Plotter,       *)
(* add_mesh, configuration, camera assignment and show; and every run ends, *)
(* finished when no call raises.                                            *)
C7_Terminates ==
    /\ []C7_Counts
    /\ \A s \in Scripts :
           /\ <>(status[s] \in {"done", "failed"})
           /\ [](status[s] # "failed") => <>Done(s)

C7_Witness == Done(RP) /\ Done(AA)

-----------------------------------------------------------------------------
Plotters == ResultsOf(AA, {"pv.Plotter"})

OnPlotter(p) == SelectSeq(log[AA], LAMBDA e : e.ev = "call" /\ e.recv = p)

InShape(e, n) ==
    CASE n = 1 -> e.kind = "call" /\ e.fn = "add_mesh"
      [] n = 2 -> e.kind = "call" /\ e.fn \in AAConfigFns
      [] n = 3 -> e.kind = "setattr" /\ e.fn = "camera_position"
      [] n = 4 -> e.kind = "call" /\ e.fn = "show"
      [] OTHER -> FALSE

(* C8: every Plotter() gives a plotter of its own; the calls a plotter      *)
(* receives are add_mesh, one anti-aliasing configuration, the              *)
(* camera_position assignment and show, once each and in that order, and    *)
(* none after show; every method call and attribute assignment of the       *)
(* script is on one of its plotters, so nothing is assigned to the global   *)
(* theme; a finished run has four plotters that each received all four.     *)
C8_OnePlotterPerRender ==
    /\ Cardinality(Plotters) = Cardinality(RetIdx(AA, {"pv.Plotter"}))
    /\ \A p \in Plotters :
           /\ Len(OnPlotter(p)) <= 4
           /\ \A n \in DOMAIN OnPlotter(p) : InShape(OnPlotter(p)[n], n)
    /\ \A k \in AnyCall(AA) :
           /\ log[AA][k].recv # None => log[AA][k].recv \in Plotters
           /\ log[AA][k].kind = "setattr" => log[AA][k].recv \in Plotters
           /\ \A a \in DOMAIN log[AA][k].args : log[AA][k].args[a] \notin Plotters
    /\ Done(AA) =>
           /\ Cardinality(Plotters) = 4
           /\ \A p \in Plotters : Len(OnPlotter(p)) = 4

C8_Witness == Done(AA) /\ Cardinality(Plotters) = 4

-----------------------------------------------------------------------------
Bindings(s, v) ==
    {k \in DOMAIN log[s] : log[s][k].ev \in {"ret", "assign"} /\ log[s][k].bind = v}

(* The bunny is downloaded once, before the first Plotter is created, and   *)
(* bound once; cpos is bound once; every add_mesh is given the downloaded   *)
(* bunny and every camera_position assignment is given cpos.                *)
C9_SameMeshSameCamera ==
    /\ Count(AA, {"examples.download_bunny"}) <= 1
    /\ After(AA, {"pv.Plotter"}, {"examples.download_bunny"})
    /\ Cardinality(Bindings(AA, "bunny")) <= 1
    /\ Cardinality(Bindings(AA, "cpos")) <= 1
    /\ \A k \in CallIdx(AA, {"add_mesh"}) :
           /\ Len(log[AA][k].args) = 1
           /\ log[AA][k].args[1] \in ResultsOf(AA, {"examples.download_bunny"})
    /\ \A k \in CallIdx(AA, {"camera_position"}) :
           /\ log[AA][k].args = <<CposLiteral>>
           /\ \E j \in Bindings(AA, "cpos") : j < k /\ log[AA][j].res = log[AA][k].args[1]

AddMeshNo(k) == Cardinality({j \in CallIdx(AA, {"add_mesh"}) : j <= k})

(* C9 (as stated): the four renders use the same bunny, downloaded once    *)
(* and never rebound, and the same cpos, bound once, and all four add_mesh  *)
(* calls have the same arguments.                                           *)
C9_Original ==
    /\ C9_SameMeshSameCamera
    /\ \A j \in CallIdx(AA, {"add_mesh"}) : \A k \in CallIdx(AA, {"add_mesh"}) :
           log[AA][j].args = log[AA][k].args /\ log[AA][j].kw = log[AA][k].kw

(* C9 (amended): the four renders use the same bunny, downloaded once and   *)
(* never rebound, and the same cpos, bound once; the first three add_mesh   *)
(* calls are made with show_edges=True alone and the fourth with            *)
(* show_edges=True, line_width=2.                                           *)
C9_SameButLineWidth ==
    /\ C9_SameMeshSameCamera
    /\ \A k \in CallIdx(AA, {"add_mesh"}) :
           /\ AddMeshNo(k) <= 4
           /\ AddMeshNo(k) <= 3 => log[AA][k].kw = <<[k |-> "show_edges", v |-> PyTrue]>>
           /\ AddMeshNo(k) = 4 =>
                  log[AA][k].kw = <<[k |-> "show_edges", v |-> PyTrue],
                                    [k |-> "line_width", v |-> PyInt("2")]>>

C9_Witness == Count(AA, {"add_mesh"}) = 4 /\ Count(AA, {"camera_position"}) = 4

-----------------------------------------------------------------------------
PlotNo(k) == Cardinality({j \in CallIdx(RP, {"plot"}) : j <= k})

(* C10: both plots are called on the one value vista.read returned, mesh    *)
(* being bound once; the first is given scalars='node_value' and            *)
(* categories=True, the second scalars='density' and nothing else, and the  *)
(* second starts after the first has returned.                              *)
C10_TwoPlotsOneMesh ==
    /\ Cardinality(Bindings(RP, "mesh")) <= 1
    /\ Count(RP, ReadFns) <= 1
    /\ \A k \in CallIdx(RP, {"plot"}) :
           /\ PlotNo(k) <= 2
           /\ log[RP][k].recv \in ResultsOf(RP, ReadFns)
           /\ log[RP][k].recv = env[RP]["mesh"]
           /\ log[RP][k].args = <<>>
           /\ PlotNo(k) = 1 =>
                  log[RP][k].kw = <<[k |-> "scalars", v |-> Str("node_value")],
                                    [k |-> "categories", v |-> PyTrue]>>
           /\ PlotNo(k) = 2 =>
                  /\ log[RP][k].kw = <<[k |-> "scalars", v |-> Str("density")]>>
                  /\ \A n \in DOMAIN log[RP][k].kw : log[RP][k].kw[n].k # "categories"
                  /\ \E j \in CallIdx(RP, {"plot"}) : j < k /\ OutcomeBetween(RP, j, k)
    /\ \A j \in CallIdx(RP, {"plot"}) : \A k \in CallIdx(RP, {"plot"}) :
           log[RP][j].recv = log[RP][k].recv

C10_Witness == Count(RP, {"plot"}) = 2

====
